---- MODULE Spec2Model ----
(***************************************************************************)
(* Expression-tree library (expr.hpp) and its driver.                      *)
(*                                                                         *)
(* The heap is a sequence of node objects; a node's identity is its index. *)
(* Child handles are indices, Null is the null pointer.  freed[n] counts   *)
(* how many times node n has been deleted; a freed node keeps its fields   *)
(* (stale memory).  roots is the set of objects the caller owns directly.  *)
(***************************************************************************)
EXTENDS Integers, Sequences, FiniteSets, TLC

VARIABLES heap, freed, roots, crashed, build, last

vars == <<heap, freed, roots, crashed, build, last>>

\* Bound on the number of objects the ownership specification allocates.
MaxNodes == 5

\* Bound on the number of nodes of a generated input tree.
MaxSize == 5

Null == 0

---------------------------------------------------------------------------
\* Values of the three result types used by the driver: int, bool and
\* std::string.  A bool is held as 0/1, as its conversion to int gives.

IntV(n) == [ty |-> "int", i |-> n, s |-> ""]

BoolV(b) == [ty |-> "bool", i |-> IF b THEN 1 ELSE 0, s |-> ""]

StrV(x) == [ty |-> "str", i |-> 0, s |-> x]

NoVal == [ty |-> "none", i |-> 0, s |-> ""]

\* Values the generated constants are drawn from.
ConstPool == {IntV(2), IntV(4), BoolV(TRUE), BoolV(FALSE),
              StrV("correct"), StrV("incorrect")}

\* operator<< of the stored value: an int or a bool prints as a number
\* (no boolalpha), a string prints as itself.
show(v) == IF v.ty = "str" THEN v.s ELSE ToString(v.i)

---------------------------------------------------------------------------
\* The wrapper functions of the driver.  Each returns the value of its
\* declared return type: plus returns int, the other three return bool.

plus(a, b) == IntV(a + b)

equals(a, b) == BoolV(a = b)

mult(a, b) == BoolV(a * b # 0)

sub(a, b) == BoolV(a - b # 0)

\* Implicit conversion of a function result to the node's result type T.
convert(v, ty) ==
    IF v.ty = ty THEN v
    ELSE IF ty = "int" THEN IntV(v.i)
    ELSE BoolV(v.i # 0)

\* std::function<T(A,B)>::operator(): call the stored function, convert to T.
call(fn, ty, a, b) ==
    convert(CASE fn = "plus"   -> plus(a.i, b.i)
              [] fn = "equals" -> equals(a.i, b.i)
              [] fn = "mult"   -> mult(a.i, b.i)
              [] fn = "sub"    -> sub(a.i, b.i), ty)

\* The (function, display name, result type) triples binary nodes are built
\* with; the first three are the driver's.
BinOps == {<<"plus", "+", "int">>, <<"equals", "==", "bool">>,
           <<"mult", "*", "int">>, <<"sub", "-", "int">>}

---------------------------------------------------------------------------
\* Node objects.

const_expr(v) ==
    [kind |-> "const", ty |-> v.ty, val |-> v, fn |-> "", name |-> "",
     left_arg |-> Null, right_arg |-> Null,
     cond |-> Null, true_branch |-> Null, false_branch |-> Null]

bin_op_expr(f, n, ty, l, r) ==
    [kind |-> "bin", ty |-> ty, val |-> NoVal, fn |-> f, name |-> n,
     left_arg |-> l, right_arg |-> r,
     cond |-> Null, true_branch |-> Null, false_branch |-> Null]

if_expr(ty, c, t, f) ==
    [kind |-> "if", ty |-> ty, val |-> NoVal, fn |-> "", name |-> "",
     left_arg |-> Null, right_arg |-> Null,
     cond |-> c, true_branch |-> t, false_branch |-> f]

NoNode ==
    [kind |-> "none", ty |-> "none", val |-> NoVal, fn |-> "", name |-> "",
     left_arg |-> Null, right_arg |-> Null,
     cond |-> Null, true_branch |-> Null, false_branch |-> Null]

\* The handles a node holds, in declaration order.
children(e) ==
    IF e.kind = "bin" THEN <<e.left_arg, e.right_arg>>
    ELSE IF e.kind = "if" THEN <<e.cond, e.true_branch, e.false_branch>>
    ELSE <<>>

\* A pointer that can be dereferenced: non-null, and either live or freed
\* memory that still holds its old contents (stale).
valid(fr, n, stale) == n # Null /\ (fr[n] = 0 \/ stale)

---------------------------------------------------------------------------
\* Evaluation.  The result carries the value and the sequence of events of
\* the traversal: a node's eval being entered (call) and left (ret), and a
\* binary node's function being applied (apply).  ok is FALSE when the
\* traversal dereferences a null or an unreadable freed pointer, or throws.

Ev(k, n) == [ev |-> k, node |-> n]

Undefined(tr) == [ok |-> FALSE, val |-> NoVal, trace |-> tr]

\* const_expr::eval
const_eval(n, e) ==
    [ok |-> TRUE, val |-> e.val, trace |-> <<Ev("call", n), Ev("ret", n)>>]

\* bin_op_expr::eval: fn(left_arg->eval(), right_arg->eval()).  The order in
\* which the two arguments of the call are evaluated is unspecified: ltr is
\* the order the build chose.  Calling an emptied fn throws
\* std::bad_function_call, which nothing catches.
bin_op_eval(n, e, l, r, ltr) ==
    LET first  == IF ltr THEN l ELSE r
        second == IF ltr THEN r ELSE l
    IN  IF ~first.ok THEN Undefined(<<Ev("call", n)>> \o first.trace)
        ELSE IF ~second.ok \/ e.fn = ""
             THEN Undefined(<<Ev("call", n)>> \o first.trace \o second.trace)
        ELSE [ok |-> TRUE,
              val |-> call(e.fn, e.ty, l.val, r.val),
              trace |-> <<Ev("call", n)>> \o first.trace \o second.trace
                        \o <<Ev("apply", n), Ev("ret", n)>>]

\* if_expr::eval: the test is on the cond pointer itself.
if_eval(n, e, t, f) ==
    LET b == IF e.cond # Null THEN t ELSE f
    IN  IF ~b.ok THEN Undefined(<<Ev("call", n)>> \o b.trace)
        ELSE [ok |-> TRUE, val |-> b.val,
              trace |-> <<Ev("call", n)>> \o b.trace \o <<Ev("ret", n)>>]

RECURSIVE eval(_, _, _, _, _)
eval(h, fr, n, ltr, stale) ==
    IF ~valid(fr, n, stale) THEN Undefined(<<>>)
    ELSE LET e == h[n]
         IN  CASE e.kind = "const" -> const_eval(n, e)
               [] e.kind = "bin" ->
                    bin_op_eval(n, e, eval(h, fr, e.left_arg, ltr, stale),
                                eval(h, fr, e.right_arg, ltr, stale), ltr)
               [] e.kind = "if" ->
                    if_eval(n, e, eval(h, fr, e.true_branch, ltr, stale),
                            eval(h, fr, e.false_branch, ltr, stale))

---------------------------------------------------------------------------
\* Printing.  out is the text written to the stream, trace the nodes whose
\* print ran, in order (print events).

NoOut(tr) == [ok |-> FALSE, out |-> "", trace |-> tr]

\* const_expr::print
const_print(n, e) ==
    [ok |-> TRUE, out |-> show(e.val), trace |-> <<Ev("print", n)>>]

\* bin_op_expr::print with the separating spaces left out.
bin_op_print_nospace(n, e, l, r) ==
    IF ~l.ok THEN NoOut(<<Ev("print", n)>> \o l.trace)
    ELSE IF ~r.ok THEN NoOut(<<Ev("print", n)>> \o l.trace \o r.trace)
    ELSE [ok |-> TRUE,
          out |-> "(" \o l.out \o e.name \o r.out \o ")",
          trace |-> <<Ev("print", n)>> \o l.trace \o r.trace]

\* bin_op_expr::print
bin_op_print(n, e, l, r) ==
    IF ~l.ok THEN NoOut(<<Ev("print", n)>> \o l.trace)
    ELSE IF ~r.ok THEN NoOut(<<Ev("print", n)>> \o l.trace \o r.trace)
    ELSE [ok |-> TRUE,
          out |-> "(" \o l.out \o " " \o e.name \o " " \o r.out \o ")",
          trace |-> <<Ev("print", n)>> \o l.trace \o r.trace]

\* if_expr::print
if_print(n, e) ==
    [ok |-> TRUE, out |-> IF e.cond # Null THEN "true" ELSE "false",
     trace |-> <<Ev("print", n)>>]

RECURSIVE print(_, _, _, _)
print(h, fr, n, stale) ==
    IF ~valid(fr, n, stale) THEN NoOut(<<>>)
    ELSE LET e == h[n]
         IN  CASE e.kind = "const" -> const_print(n, e)
               [] e.kind = "bin" ->
                    bin_op_print(n, e, print(h, fr, e.left_arg, stale),
                                 print(h, fr, e.right_arg, stale))
               [] e.kind = "if" -> if_print(n, e)

---------------------------------------------------------------------------
\* The record of the last operation performed.

NoOp ==
    [op |-> "none", this |-> Null, other |-> Null, before |-> NoNode,
     obefore |-> NoNode, ok |-> TRUE, val |-> NoVal, trace |-> <<>>, out |-> ""]

\* r.eval() on an object the caller holds.
EvalOp(r) ==
    /\ ~crashed
    /\ r \in roots
    /\ \E stale \in BOOLEAN :
         LET res == eval(heap, freed, r, build = "ltr", stale)
         IN  /\ last' = [NoOp EXCEPT !.op = "eval", !.this = r,
                                     !.ok = res.ok, !.val = res.val,
                                     !.trace = res.trace]
             /\ crashed' = ~res.ok
    /\ UNCHANGED <<heap, freed, roots, build>>

\* out << r on an object the caller holds.
PrintOp(r) ==
    /\ ~crashed
    /\ r \in roots
    /\ \E stale \in BOOLEAN :
         LET res == print(heap, freed, r, stale)
         IN  /\ last' = [NoOp EXCEPT !.op = "print", !.this = r,
                                     !.ok = res.ok, !.out = res.out,
                                     !.trace = res.trace]
             /\ crashed' = ~res.ok
    /\ UNCHANGED <<heap, freed, roots, build>>

---------------------------------------------------------------------------
\* Input trees: every well-typed tree of at most MaxSize nodes over
\* ConstPool and BinOps, laid out as the caller builds it, children before
\* their parent, so the root is the last object.

\* The objects of h at addresses moved up by d.
Shift(h, d) ==
    LET mv(p) == IF p = Null THEN Null ELSE p + d
    IN  [k \in 1..Len(h) |->
            [h[k] EXCEPT !.left_arg = mv(@), !.right_arg = mv(@),
                         !.cond = mv(@), !.true_branch = mv(@),
                         !.false_branch = mv(@)]]

BinTree(op, L, R) ==
    L \o Shift(R, Len(L))
      \o <<bin_op_expr(op[1], op[2], op[3], Len(L), Len(L) + Len(R))>>

IfTree(ty, C, T, F) ==
    C \o Shift(T, Len(C)) \o Shift(F, Len(C) + Len(T))
      \o <<if_expr(ty, Len(C), Len(C) + Len(T), Len(C) + Len(T) + Len(F))>>

Types == {"int", "bool", "str"}

RECURSIVE TreesOf(_, _)
TreesOf(ty, k) ==
    IF k < 1 THEN {}
    ELSE IF k = 1 THEN {<<const_expr(v)>> : v \in {w \in ConstPool : w.ty = ty}}
    ELSE UNION {UNION {{BinTree(op, L, R) : L \in TreesOf("int", a),
                                           R \in TreesOf("int", k - 1 - a)}
                       : a \in 1..(k - 2)}
                : op \in {o \in BinOps : o[3] = ty}}
         \cup
         UNION {UNION {{IfTree(ty, C, T, F) : C \in TreesOf("bool", a),
                                             T \in TreesOf(ty, b),
                                             F \in TreesOf(ty, k - 1 - a - b)}
                       : b \in 1..(k - 2 - a)}
                : a \in 1..(k - 3)}

\* The trees the driver builds.
Scenario1 ==
    BinTree(<<"equals", "==", "bool">>,
            BinTree(<<"plus", "+", "int">>,
                    <<const_expr(IntV(2))>>, <<const_expr(IntV(2))>>),
            <<const_expr(IntV(4))>>)

Scenario2 ==
    IfTree("str", Scenario1, <<const_expr(StrV("correct"))>>,
           <<const_expr(StrV("incorrect"))>>)

Scenario3Cond ==
    BinTree(<<"equals", "==", "bool">>,
            BinTree(<<"mult", "*", "int">>,
                    <<const_expr(IntV(8))>>, <<const_expr(IntV(5))>>),
            <<const_expr(IntV(40))>>)

Scenario3 ==
    IfTree("str", Scenario3Cond, <<const_expr(StrV("correct"))>>,
           <<const_expr(StrV("incorrect"))>>)

Inputs ==
    UNION {TreesOf(ty, k) : ty \in Types, k \in 1..MaxSize}
    \cup {Scenario1, Scenario2, Scenario3Cond, Scenario3}

InitEval ==
    /\ heap \in Inputs
    /\ freed = [k \in 1..Len(heap) |-> 0]
    /\ roots = {Len(heap)}
    /\ crashed = FALSE
    /\ build \in {"ltr", "rtl"}
    /\ last = NoOp

NextEval ==
    \/ \E r \in roots : EvalOp(r)
    \/ \E r \in roots : PrintOp(r)

SpecEval == InitEval /\ [][NextEval]_vars

---------------------------------------------------------------------------
\* Ownership: construction, cloning, copying, moving and destruction.

\* freed[n] saturates at MaxFreed: the value MaxFreed reads "deleted
\* MaxFreed times or more".
MaxFreed == 2

Zeros(k) == [j \in 1..k |-> 0]

\* The nodes reachable from n through the handles, n included; a dangling
\* handle still designates the object it pointed to.
RECURSIVE Reach(_, _)
Reach(h, n) ==
    IF n = Null THEN {}
    ELSE {n} \cup UNION {Reach(h, children(h[n])[k]) :
                            k \in 1..Len(children(h[n]))}

\* ~if_expr: delete cond; delete true_branch; delete false_branch.  The
\* result is the order in which the objects under e are deleted.
if_dtor(c, t, f) == c \o t \o f

\* ~bin_op_expr (implicit): the unique_ptr members are destroyed in reverse
\* order of declaration, right_arg before left_arg.
bin_op_dtor(l, r) == r \o l

\* delete n: run the destructor, then release the object.  Deleting a null
\* pointer does nothing.
RECURSIVE delete(_, _)
delete(h, n) ==
    IF n = Null THEN <<>>
    ELSE LET e == h[n]
         IN  (CASE e.kind = "if" ->
                     if_dtor(delete(h, e.cond), delete(h, e.true_branch),
                             delete(h, e.false_branch))
                [] e.kind = "bin" ->
                     bin_op_dtor(delete(h, e.left_arg), delete(h, e.right_arg))
                [] OTHER -> <<>>) \o <<n>>

\* The effect on freed of deleting the objects of seq in order.  Deleting an
\* object that is already freed is undefined: either the allocator aborts
\* the program at that point, or (stale) the deletion runs on the old
\* contents and the program goes on.
RECURSIVE release(_, _, _)
release(fr, seq, stale) ==
    IF seq = <<>> THEN [freed |-> fr, crashed |-> FALSE]
    ELSE LET n  == Head(seq)
             f2 == [fr EXCEPT ![n] = IF @ < MaxFreed THEN @ + 1 ELSE @]
         IN  IF fr[n] > 0 /\ ~stale THEN [freed |-> f2, crashed |-> TRUE]
             ELSE release(f2, Tail(seq), stale)

\* if_expr(const if_expr& o): the three handles of o are copied.
if_copy(o) == if_expr(o.ty, o.cond, o.true_branch, o.false_branch)

\* clone(): the heap with the copy added, and the copy's address.
\* const_expr::clone and if_expr::clone copy-construct a new object;
\* bin_op_expr::clone clones both operands (in the order the build chose)
\* and constructs a new node over the clones.
RECURSIVE clone(_, _, _, _, _)
clone(h, fr, n, ltr, stale) ==
    IF ~valid(fr, n, stale) THEN [ok |-> FALSE, heap |-> h, id |-> Null]
    ELSE LET e == h[n]
         IN  CASE e.kind = "const" ->
                    [ok |-> TRUE, heap |-> Append(h, e), id |-> Len(h) + 1]
               [] e.kind = "if" ->
                    [ok |-> TRUE, heap |-> Append(h, if_copy(e)),
                     id |-> Len(h) + 1]
               [] e.kind = "bin" ->
                    LET a1 == IF ltr THEN e.left_arg ELSE e.right_arg
                        a2 == IF ltr THEN e.right_arg ELSE e.left_arg
                        c1 == clone(h, fr, a1, ltr, stale)
                        c2 == clone(c1.heap, fr \o Zeros(Len(c1.heap) - Len(fr)),
                                    a2, ltr, stale)
                        l  == IF ltr THEN c1.id ELSE c2.id
                        r  == IF ltr THEN c2.id ELSE c1.id
                    IN  IF ~c1.ok THEN c1
                        ELSE IF ~c2.ok THEN c2
                        ELSE [ok |-> TRUE,
                              heap |-> Append(c2.heap,
                                  bin_op_expr(e.fn, e.name, e.ty, l, r)),
                              id |-> Len(c2.heap) + 1]

\* fr extended to the objects of h.
Grow(fr, h) == fr \o Zeros(Len(h) - Len(fr))

\* new const_expr<T>(v)
NewConst(v) ==
    /\ ~crashed
    /\ Len(heap) < MaxNodes
    /\ heap' = Append(heap, const_expr(v))
    /\ freed' = Append(freed, 0)
    /\ roots' = roots \cup {Len(heap) + 1}
    /\ last' = [NoOp EXCEPT !.op = "new", !.this = Len(heap) + 1]
    /\ UNCHANGED <<crashed, build>>

\* new bin_op_expr<T,int,int>(f, n, l, r): the node takes over l and r.
NewBin(op, l, r) ==
    /\ ~crashed
    /\ Len(heap) < MaxNodes
    /\ l \in roots /\ r \in roots /\ l # r
    /\ heap[l].ty = "int" /\ heap[r].ty = "int"
    /\ heap' = Append(heap, bin_op_expr(op[1], op[2], op[3], l, r))
    /\ freed' = Append(freed, 0)
    /\ roots' = (roots \ {l, r}) \cup {Len(heap) + 1}
    /\ last' = [NoOp EXCEPT !.op = "new", !.this = Len(heap) + 1]
    /\ UNCHANGED <<crashed, build>>

\* new if_expr<T>(c, t, f): the node takes over c, t and f.
NewIf(c, t, f) ==
    /\ ~crashed
    /\ Len(heap) < MaxNodes
    /\ {c, t, f} \subseteq roots /\ c # t /\ c # f /\ t # f
    /\ heap[c].ty = "bool" /\ heap[t].ty = heap[f].ty
    /\ heap' = Append(heap, if_expr(heap[t].ty, c, t, f))
    /\ freed' = Append(freed, 0)
    /\ roots' = (roots \ {c, t, f}) \cup {Len(heap) + 1}
    /\ last' = [NoOp EXCEPT !.op = "new", !.this = Len(heap) + 1]
    /\ UNCHANGED <<crashed, build>>

\* r->clone(); the caller owns the clone.
Clone(r) ==
    /\ ~crashed
    /\ r \in roots
    /\ \E stale \in BOOLEAN :
         LET res == clone(heap, freed, r, build = "ltr", stale)
         IN  /\ Len(res.heap) <= MaxNodes
             /\ heap' = res.heap
             /\ freed' = Grow(freed, res.heap)
             /\ roots' = IF res.ok THEN roots \cup {res.id} ELSE roots
             /\ crashed' = ~res.ok
             /\ last' = [NoOp EXCEPT !.op = "clone", !.this = r,
                                     !.other = res.id, !.ok = res.ok]
    /\ UNCHANGED build

\* b = a (copy assignment) between two objects of the same class.
\* if_expr: deletes b's children, takes a's handles and clears them in a.
\* bin_op_expr: copies fn and name, resets each operand to a clone of a's.
CopyAssign(b, a) ==
    /\ ~crashed
    /\ b \in roots /\ a \in roots
    /\ heap[b].kind = heap[a].kind /\ heap[b].ty = heap[a].ty
    /\ heap[b].kind \in {"if", "bin"}
    /\ \E stale \in BOOLEAN :
         LET B   == heap[b]
             A   == heap[a]
             rec == [NoOp EXCEPT !.op = "copy_assign", !.this = b,
                                 !.other = a, !.before = B, !.obefore = A]
         IN  IF a = b
             THEN /\ last' = rec
                  /\ UNCHANGED <<heap, freed, roots, crashed>>
             ELSE IF B.kind = "if"
             THEN LET rel == release(freed,
                                 if_dtor(delete(heap, B.cond),
                                         delete(heap, B.true_branch),
                                         delete(heap, B.false_branch)), stale)
                  IN  /\ freed' = rel.freed
                      /\ crashed' = rel.crashed
                      /\ heap' = IF rel.crashed THEN heap
                                 ELSE [heap EXCEPT
                                         ![b] = if_expr(B.ty, A.cond,
                                                   A.true_branch, A.false_branch),
                                         ![a] = if_expr(A.ty, Null, Null, Null)]
                      /\ last' = [rec EXCEPT !.ok = ~rel.crashed]
                      /\ UNCHANGED roots
             ELSE LET cl  == clone(heap, freed, A.left_arg, build = "ltr", stale)
                      r1  == release(Grow(freed, cl.heap),
                                     delete(heap, B.left_arg), stale)
                      cr  == clone(cl.heap, r1.freed, A.right_arg,
                                   build = "ltr", stale)
                      r2  == release(Grow(r1.freed, cr.heap),
                                     delete(heap, B.right_arg), stale)
                  IN  /\ Len(cr.heap) <= MaxNodes
                      /\ IF ~cl.ok
                         THEN /\ heap' = [cl.heap EXCEPT ![b].fn = A.fn,
                                             ![b].name = A.name]
                              /\ freed' = Grow(freed, cl.heap)
                              /\ crashed' = TRUE
                         ELSE IF r1.crashed \/ ~cr.ok
                         THEN /\ heap' = [cr.heap EXCEPT ![b].fn = A.fn,
                                             ![b].name = A.name,
                                             ![b].left_arg = cl.id]
                              /\ freed' = Grow(r1.freed, cr.heap)
                              /\ crashed' = TRUE
                         ELSE /\ heap' = [cr.heap EXCEPT ![b] =
                                             bin_op_expr(A.fn, A.name, B.ty,
                                                         cl.id, cr.id)]
                              /\ freed' = r2.freed
                              /\ crashed' = r2.crashed
                      /\ last' = [rec EXCEPT !.ok = ~crashed']
                      /\ UNCHANGED roots
    /\ UNCHANGED build

\* T d(std::move(s)) (move construction); the caller owns d, and still
\* holds the moved-from s.
\* if_expr: d takes the three handles of s; s keeps cond (moving a raw
\* pointer copies it) and has its two branches cleared.
\* bin_op_expr (defaulted): the unique_ptr operands are transferred and s is
\* left with none; s's fn and name are left in an unspecified state, either
\* kept or emptied.
MoveConstruct(s) ==
    /\ ~crashed
    /\ s \in roots
    /\ heap[s].kind \in {"if", "bin"}
    /\ Len(heap) < MaxNodes
    /\ LET S == heap[s]
           d == Len(heap) + 1
       IN  /\ \E kept \in BOOLEAN :
                heap' = IF S.kind = "if"
                        THEN Append([heap EXCEPT ![s].true_branch = Null,
                                                 ![s].false_branch = Null],
                                    if_expr(S.ty, S.cond, S.true_branch,
                                            S.false_branch))
                        ELSE Append([heap EXCEPT ![s] =
                                        bin_op_expr(IF kept THEN S.fn ELSE "",
                                                    IF kept THEN S.name ELSE "",
                                                    S.ty, Null, Null)],
                                    S)
           /\ freed' = Append(freed, 0)
           /\ roots' = roots \cup {d}
           /\ last' = [NoOp EXCEPT !.op = "move_construct", !.this = d,
                                   !.other = s, !.obefore = S]
    /\ UNCHANGED <<crashed, build>>

\* b = std::move(a) (move assignment) between two objects of the same class.
\* if_expr: deletes b's two branches (not its cond), takes the three
\* handles of a and clears a's two branches.
\* bin_op_expr (defaulted): members are move-assigned in declaration order;
\* each unique_ptr takes a's operand and deletes the one it held (moving a
\* unique_ptr onto itself keeps it); a's fn and name are left in an
\* unspecified state, either kept or emptied.
MoveAssign(b, a) ==
    /\ ~crashed
    /\ b \in roots /\ a \in roots
    /\ heap[b].kind = heap[a].kind /\ heap[b].ty = heap[a].ty
    /\ heap[b].kind \in {"if", "bin"}
    /\ \E stale \in BOOLEAN, kept \in BOOLEAN :
         LET B   == heap[b]
             A   == heap[a]
             rec == [NoOp EXCEPT !.op = "move_assign", !.this = b,
                                 !.other = a, !.before = B, !.obefore = A]
         IN  IF a = b /\ B.kind = "if"
             THEN /\ last' = rec
                  /\ UNCHANGED <<heap, freed, roots, crashed>>
             ELSE IF B.kind = "if"
             THEN LET rel == release(freed,
                                 delete(heap, B.true_branch)
                                 \o delete(heap, B.false_branch), stale)
                  IN  /\ freed' = rel.freed
                      /\ crashed' = rel.crashed
                      /\ heap' = IF rel.crashed THEN heap
                                 ELSE [heap EXCEPT
                                         ![b] = if_expr(B.ty, A.cond,
                                                   A.true_branch, A.false_branch),
                                         ![a] = if_expr(A.ty, A.cond, Null, Null)]
                      /\ last' = [rec EXCEPT !.ok = ~rel.crashed]
                      /\ UNCHANGED roots
             ELSE LET rel == release(freed,
                                 delete(heap, B.left_arg)
                                 \o delete(heap, B.right_arg), stale)
                  IN  /\ freed' = IF a = b THEN freed ELSE rel.freed
                      /\ crashed' = IF a = b THEN FALSE ELSE rel.crashed
                      /\ heap' = IF a = b
                                 THEN [heap EXCEPT
                                         ![b].fn = IF kept THEN @ ELSE "",
                                         ![b].name = IF kept THEN @ ELSE ""]
                                 ELSE IF rel.crashed THEN heap
                                 ELSE [heap EXCEPT
                                         ![b] = bin_op_expr(A.fn, A.name, B.ty,
                                                   A.left_arg, A.right_arg),
                                         ![a] = bin_op_expr(
                                                   IF kept THEN A.fn ELSE "",
                                                   IF kept THEN A.name ELSE "",
                                                   A.ty, Null, Null)]
                      /\ last' = [rec EXCEPT !.ok = ~crashed']
                      /\ UNCHANGED roots
    /\ UNCHANGED build

\* delete r, or the end of the scope of a stack object r.
Destroy(r) ==
    /\ ~crashed
    /\ r \in roots
    /\ \E stale \in BOOLEAN :
         LET rel == release(freed, delete(heap, r), stale)
         IN  /\ freed' = rel.freed
             /\ crashed' = rel.crashed
             /\ roots' = IF rel.crashed THEN roots ELSE roots \ {r}
             /\ last' = [NoOp EXCEPT !.op = "destroy", !.this = r,
                                     !.before = heap[r], !.ok = ~rel.crashed]
    /\ UNCHANGED <<heap, build>>

\* Values and functions the ownership specification builds nodes from: one
\* constant of each type, one function of each result type.
NewPool == {IntV(2), BoolV(FALSE), StrV("correct")}

NewOps == {<<"plus", "+", "int">>, <<"equals", "==", "bool">>}

Init ==
    /\ heap = <<>>
    /\ freed = <<>>
    /\ roots = {}
    /\ crashed = FALSE
    /\ build \in {"ltr", "rtl"}
    /\ last = NoOp

Next ==
    \/ \E v \in NewPool : NewConst(v)
    \/ \E op \in NewOps, l \in roots, r \in roots : NewBin(op, l, r)
    \/ \E c \in roots, t \in roots, f \in roots : NewIf(c, t, f)
    \/ \E r \in roots : Clone(r)
    \/ \E b \in roots, a \in roots : CopyAssign(b, a)
    \/ \E s \in roots : MoveConstruct(s)
    \/ \E b \in roots, a \in roots : MoveAssign(b, a)
    \/ \E r \in roots : Destroy(r)
    \/ \E r \in roots : EvalOp(r)
    \/ \E r \in roots : PrintOp(r)

Spec == Init /\ [][Next]_vars

\* Objects the caller holds are live.
RootsLive == \A r \in roots : freed[r] = 0

---------------------------------------------------------------------------
\* Properties of evaluation and printing (SpecEval).

\* The object the last operation was invoked on.
This == heap[last.this]

EvalOf(n) == eval(heap, freed, n, build = "ltr", FALSE)

PrintOf(n) == print(heap, freed, n, FALSE)

\* Number of occurrences of event x in trace tr.
Count(tr, x) == Cardinality({k \in 1..Len(tr) : tr[k] = x})

\* Position of the first occurrence of event x in trace tr, 0 if none.
Pos(tr, x) ==
    IF Count(tr, x) = 0 THEN 0
    ELSE CHOOSE k \in 1..Len(tr) :
            tr[k] = x /\ \A j \in 1..(k - 1) : tr[j] # x

Evaluated(n) == last.op = "eval" /\ last.ok /\ This.kind = n

Printed(n) == last.op = "print" /\ last.ok /\ This.kind = n

\* C1: eval() of a conditional node evaluates the condition and returns the
\* true branch's value when the condition's value is true and the false
\* branch's value when it is false.
C1_BranchOnValue ==
    Evaluated("if") =>
        /\ Count(last.trace, Ev("call", This.cond)) = 1
        /\ last.val = IF EvalOf(This.cond).val = BoolV(TRUE)
                      THEN EvalOf(This.true_branch).val
                      ELSE EvalOf(This.false_branch).val

\* C2: one eval() of a conditional node enters exactly the branch selected
\* by the condition's value, once, and never enters the other branch.
C2_ShortCircuit ==
    Evaluated("if") =>
        LET c == EvalOf(This.cond).val = BoolV(TRUE)
        IN  /\ Count(last.trace, Ev("call", This.true_branch))
                 = IF c THEN 1 ELSE 0
            /\ Count(last.trace, Ev("call", This.false_branch))
                 = IF c THEN 0 ELSE 1

\* C6: eval() of a binary node is f(L.eval(), R.eval()) and print() writes
\* "(" L " " name " " R ")"; (2 + 2) == 4 prints "((2 + 2) == 4)" and
\* evaluates to true.
C6_BinaryEvalPrint ==
    /\ Evaluated("bin") =>
          /\ last.val = call(This.fn, This.ty, EvalOf(This.left_arg).val,
                             EvalOf(This.right_arg).val)
          /\ heap = Scenario1 => last.val = BoolV(TRUE)
    /\ Printed("bin") =>
          /\ last.out = "(" \o PrintOf(This.left_arg).out \o " " \o This.name
                            \o " " \o PrintOf(This.right_arg).out \o ")"
          /\ heap = Scenario1 => last.out = "((2 + 2) == 4)"

C6_Witness ==
    /\ heap = Scenario1
    /\ Printed("bin")
    /\ last.out = "((2 + 2) == 4)"

\* C7: in eval() of a binary node the left operand's eval returns before
\* the right operand's eval is entered, and each operand is evaluated
\* exactly once before the function is applied.
C7_LeftBeforeRight ==
    Evaluated("bin") =>
        LET tr == last.trace
            l  == This.left_arg
            r  == This.right_arg
        IN  /\ Count(tr, Ev("call", l)) = 1
            /\ Count(tr, Ev("call", r)) = 1
            /\ Pos(tr, Ev("ret", l)) < Pos(tr, Ev("call", r))
            /\ Pos(tr, Ev("ret", r)) < Pos(tr, Ev("apply", last.this))

\* C8: print() of a conditional node renders its condition and both of its
\* branches, and never writes just a boolean literal.
C8_PrintAllThree ==
    Printed("if") =>
        /\ \A n \in {This.cond, This.true_branch, This.false_branch} :
              Count(last.trace, Ev("print", n)) = 1
        /\ last.out \notin {"true", "false"}

\* C9: the driver's tree (8 * 5) == 40 evaluates to true, and the
\* conditional wrapping it evaluates to "correct".
C9_Scenario3 ==
    last.op = "eval" =>
        /\ heap = Scenario3Cond => last.val = BoolV(TRUE)
        /\ heap = Scenario3 => last.val = StrV("correct")

---------------------------------------------------------------------------
\* Properties of ownership (Spec).

Other == heap[last.other]

Handles(e) == {children(e)[k] : k \in 1..Len(children(e))} \ {Null}

\* C3: the nodes reachable from X.clone() are disjoint from the nodes
\* reachable from X, for X of any variant.
C3_CloneIndependent ==
    last.op = "clone" /\ last.ok =>
        Reach(heap, last.this) \cap Reach(heap, last.other) = {}

\* C4: after move construction or move assignment from a conditional node
\* S (into another object), S holds no cond, true_branch or false_branch.
C4_MovedFromEmpty ==
    /\ last.op \in {"move_construct", "move_assign"}
    /\ last.ok
    /\ last.this # last.other
    /\ Other.kind = "if"
    => Handles(Other) = {}

\* C5: no node is ever destroyed twice; once every object the caller holds
\* has been destroyed, every node constructed has been destroyed exactly
\* once; and an assignment into a conditional node destroys the subtrees the
\* node owned.
C5_ExactlyOnce ==
    /\ \A n \in 1..Len(heap) : freed[n] <= 1
    /\ roots = {} /\ ~crashed => \A n \in 1..Len(heap) : freed[n] = 1
    /\ /\ last.op \in {"copy_assign", "move_assign"}
       /\ last.ok
       /\ last.this # last.other
       /\ This.kind = "if"
       => \A n \in Handles(last.before) : freed[n] = 1

\* C10: copy assignment B = A between distinct conditional nodes leaves A's
\* handles and subtrees as they were and gives B subtrees that share no node
\* with A's; B = B changes nothing.
C10_CopyAssignCopies ==
    last.op = "copy_assign" /\ last.ok /\ This.kind = "if" =>
        IF last.this = last.other THEN This = last.before
        ELSE /\ Other = last.obefore
             /\ \A n \in Reach(heap, last.other) : freed[n] = 0
             /\ Reach(heap, last.this) \cap Reach(heap, last.other) = {}

====
